---- MODULE Spec2Model ----
(***************************************************************************)
(* A model of runpod_worker/handler.py: the readiness gate                 *)
(* (_ensure_kokoro_ready), the child-process supervisor                    *)
(* (_start_kokoro_server), the health probe (_is_kokoro_up), the speech    *)
(* proxy (_call_kokoro_openai_speech) and the job handler (handler).       *)
(*                                                                         *)
(* Time is counted in whole seconds.  A thread's position is the source    *)
(* line it is about to execute ("L137" is line 137 of handler.py).         *)
(***************************************************************************)
EXTENDS Integers, Sequences, FiniteSets, TLC

\* ------------------------------------------------------------------ bounds

\* Child processes the operating system lets the worker create; a Popen past
\* this number raises OSError.
MaxLaunches == 3
\* Largest wait_timeout_s a direct call of _ensure_kokoro_ready passes.
MaxWait == 9
\* The ghost counter of failed polls stops counting here.
MaxPollCount == 8
\* Threads that call _ensure_kokoro_ready at the same time (overlap model).
NThreads == 2

\* ------------------------------------------------------- program constants

DefaultWait == 300
ProbeTimeout == 2
Backoff == 2
SampleRate == 24000
HttpOk == 200

\* ------------------------------------------------------------ JSON values

\* Python None as the value of an Optional; Some(x) is a present value.
None == << >>
Some(x) == <<x>>

\* A JSON / Python value is a pair <<type, content>>.
Null == <<"null", "">>
Str(s) == <<"str", s>>
True == <<"bool", "true">>
False == <<"bool", "false">>
Dict(f) == <<"dict", f>>
\* Marks a key a dict does not hold (never a value of a dict).
Absent == <<"absent", "">>

\* isinstance(v, dict)
IsDict(v) == v[1] = "dict"
\* Whether v.get exists: of the JSON values only a mapping has it.
HasGet(v) == v[1] \in {"dict"}

\* bool(v) as Python evaluates it.
Truthy(v) ==
    CASE v[1] = "null" -> FALSE
      [] v[1] = "str" -> v[2] # ""
      [] v[1] = "bool" -> v[2] = "true"
      [] v[1] = "dict" -> DOMAIN v[2] # {}
      [] OTHER -> FALSE

\* d.get(k) and d.get(k, default) on the mapping d.
Get(d, k) == IF k \in DOMAIN d THEN d[k] ELSE Null
GetOr(d, k, default) == IF k \in DOMAIN d THEN d[k] ELSE default
\* d[k] = v
Put(d, k, v) == [x \in DOMAIN d \cup {k} |-> IF x = k THEN v ELSE d[x]]
\* d.pop(k, None)
Pop(d, k) == [x \in DOMAIN d \ {k} |-> d[x]]
\* d.setdefault(k, v)
SetDefault(d, k, v) == IF k \in DOMAIN d THEN d ELSE Put(d, k, v)
\* a or b
Or(a, b) == IF Truthy(a) THEN a ELSE b

\* The dict holding the keys of g that are not Absent.
Restrict(g) == [k \in {x \in DOMAIN g : g[x] # Absent} |-> g[k]]

\* ------------------------------------------------------------- job inputs

AllJobInputs ==
    {Restrict(g) : g \in
        [input : {Absent, Str(""), Str("hi")},
         text : {Absent, Str(""), Str("yo")},
         voice : {Absent, Str(""), Str("v1")},
         model : {Absent, Null, Str("m2")},
         stream : {Absent, True},
         response_format : {Absent, Str("wav")}]}

AllJobs ==
    {Null, Str("job"), Dict([id |-> Str("j1")]),
     Dict([id |-> Str("j1"), input |-> Str("x")])}
    \cup {Dict([input |-> Dict(f)]) : f \in AllJobInputs}

SampleJobs ==
    {Null,
     Dict([id |-> Str("j1")]),
     Dict([input |-> Str("x")]),
     Dict([input |-> Dict(<< >>)]),
     Dict([input |-> Dict([voice |-> Str("v1")])]),
     Dict([input |-> Dict([input |-> Str("hi")])]),
     Dict([input |-> Dict([input |-> Str("hi"), voice |-> Str("")])]),
     Dict([input |-> Dict([input |-> Str("hi"), voice |-> Str("v1")])]),
     Dict([input |-> Dict([text |-> Str("yo"), voice |-> Str("v1")])]),
     Dict([input |-> Dict([input |-> Str(""), text |-> Str("yo"),
                           voice |-> Str("v1"), model |-> Str("m2"),
                           stream |-> True])])}

\* ------------------------------------------------------------------ state

VARIABLES
    health,       \* TRUE while GET /health answers 200
    children,     \* children[i]: what poll() returns for the i-th launched process
    kokoro_proc,  \* the global _kokoro_proc: None or Some(i)
    logThreads,   \* the process each started _stream_logs thread reads
    environ,      \* TRUE once USE_GPU, DEVICE_TYPE and PYTHONPATH are forced
    th,           \* th[t]: the frame of thread t
    job,          \* the job of the current handler invocation
    payload,      \* kokoro_payload
    sent,         \* the JSON body of the POST of this invocation
    result,       \* what the current handler invocation returned or raised
    inv           \* ghost: what the current invocation has done so far

vars == <<health, children, kokoro_proc, logThreads, environ, th, job,
          payload, sent, result, inv>>

worker == <<job, payload, sent, result, inv>>
supervisor == <<children, kokoro_proc, logThreads, environ>>

Threads == DOMAIN th

NoResult == [kind |-> "none", exc |-> "", msg |-> "", code |-> None,
             mime |-> "", format |-> Null, sample_rate |-> 0]
Raise(exc, msg, code) == [NoResult EXCEPT !.kind = "raise", !.exc = exc,
                                          !.msg = msg, !.code = code]
Return(mime, format) == [NoResult EXCEPT !.kind = "return", !.mime = mime,
                                         !.format = format,
                                         !.sample_rate = SampleRate]

NoInv == [net |-> FALSE, launched |-> FALSE, readyOk |-> FALSE, posts |-> 0]

\* The frame of a thread about to run _ensure_kokoro_ready(w) for caller ctx.
\* nfail, firstUp, sawUp, exitDuring, startEntered and entry are ghosts.
NewCall(ctx, w, proc, nchildren, nthreads) ==
    [pc |-> "L137", ctx |-> ctx, wait |-> w, elapsed |-> 0, newp |-> None,
     outcome |-> "", code |-> None,
     nfail |-> 0, firstUp |-> FALSE, sawUp |-> FALSE, exitDuring |-> None,
     startEntered |-> FALSE,
     entry |-> [proc |-> proc, n |-> nchildren, threads |-> nthreads]]

IdleFrame(ctx) ==
    [NewCall(ctx, 0, None, 0, 0) EXCEPT !.pc = "idle"]

\* ------------------------------------------------------- pure operations

\* _is_kokoro_up: True only for a response with status 200; a raised
\* exception (connection error, timeout) and any other status give False.
StatusResp(code) == <<"status", code>>
ExceptionResp == <<"exception", 0>>
IsKokoroUp(resp) == resp[1] = "status" /\ resp[2] = HttpOk

\* What GET /health can produce while the endpoint is up or down.
HealthResponses(up) == IF up THEN {StatusResp(HttpOk)}
                       ELSE {StatusResp(503), ExceptionResp}

\* handler: text = job_input.get("input") or job_input.get("text")
TextOf(job_input) == Or(Get(job_input, "input"), Get(job_input, "text"))

\* handler, up to the call of _ensure_kokoro_ready: the exception raised, or
\* "ok".  job.get('id') runs first and needs a mapping.
Validate(j) ==
    IF ~HasGet(j) THEN [exc |-> "AttributeError", msg |-> "no attribute 'get'"]
    ELSE IF ~IsDict(j) THEN [exc |-> "ValueError", msg |-> "job must be a dict"]
    ELSE IF ~IsDict(Get(j[2], "input"))
        THEN [exc |-> "ValueError", msg |-> "job['input'] must be an object"]
    ELSE IF ~Truthy(TextOf(Get(j[2], "input")[2]))
        THEN [exc |-> "ValueError",
              msg |-> "Missing required field: input (or 'text' alias)"]
    ELSE [exc |-> "", msg |-> "ok"]

\* handler: kokoro_payload, built from a copy of job_input.
Normalize(job_input) ==
    SetDefault(Pop(Put(job_input, "input", TextOf(job_input)), "text"),
               "model", Str("kokoro"))

\* Mutant of ForceNoStream: the caller's stream flag is kept when given.
ForceNoStreamKeepsCaller(p) == SetDefault(p, "stream", False)

\* _call_kokoro_openai_speech: payload = dict(payload); payload["stream"] = False
ForceNoStream(p) == Put(p, "stream", False)

\* Mutant of NeedStart: the liveness check of line 92 is missing.
NeedStartUnchecked(procs, p) == TRUE

\* _start_kokoro_server: nothing to do when a started process is still alive.
NeedStart(procs, p) == ~(p # None /\ procs[p[1]] = None)

\* Mutant of AfterFirstProbe: the server is started whatever the probe says.
AfterFirstProbeAlwaysStart(up) == "L92"

\* _ensure_kokoro_ready: the fast path after the first probe.
AfterFirstProbe(up) == IF up THEN "return" ELSE "L92"

\* Mutants of LoopCond: the comparison reversed, and the bound included.
LoopCondReversed(elapsed, wait) == elapsed > wait
LoopCondInclusive(elapsed, wait) == elapsed <= wait

\* _ensure_kokoro_ready: while time.time() - start < wait_timeout_s
LoopCond(elapsed, wait) == elapsed < wait

\* Mutant of AfterReady: the handler swallows the exception and goes on.
AfterReadySwallow(ctx, outcome) ==
    CASE ctx = "handler" -> "L206"
      [] ctx = "import" -> IF outcome = "ok" THEN "idle" ELSE "crashed"
      [] OTHER -> "idle"

\* Where the caller of _ensure_kokoro_ready goes on: the handler builds the
\* payload after a return and fails on an exception; the module-level call
\* lets an exception end the import.
AfterReady(ctx, outcome) ==
    CASE ctx = "handler" -> IF outcome = "ok" THEN "L206" ELSE "idle"
      [] ctx = "import" -> IF outcome = "ok" THEN "idle" ELSE "crashed"
      [] OTHER -> "idle"

ExitCodes == {0, 1}

\* ------------------------------------------------------------ environment

\* The inference server starts or stops answering 200 on /health.
HealthChange ==
    /\ health' = ~health
    /\ UNCHANGED <<supervisor, th, worker>>

\* Positions of _ensure_kokoro_ready at which a launched process is awaited.
WaitingPcs == {"L109", "L131", "L143", "L144", "L145", "L152", "L157"}

\* Child process i exits with code c.  Ghost: every call waiting for that
\* process records the exit.
ChildExit(i, c) ==
    /\ children[i] = None
    /\ children' = [children EXCEPT ![i] = Some(c)]
    /\ th' = [t \in Threads |->
                IF th[t].pc \in WaitingPcs
                   /\ (kokoro_proc = Some(i) \/ th[t].newp = Some(i))
                THEN [th[t] EXCEPT !.exitDuring = Some(c)]
                ELSE th[t]]
    /\ UNCHANGED <<health, kokoro_proc, logThreads, environ, worker>>

\* ------------------------------------------------- _ensure_kokoro_ready

\* The frame after _ensure_kokoro_ready ended with outcome ("ok" for a
\* return, else the exception's class).
Finish(f, outcome, code) ==
    [f EXCEPT !.pc = AfterReady(f.ctx, outcome), !.outcome = outcome,
              !.code = code]

\* The handler's result when _ensure_kokoro_ready ended: its exception is the
\* invocation's failure.
ResultAfter(f, outcome, code) ==
    IF f.ctx = "handler" /\ AfterReady(f.ctx, outcome) = "idle"
    THEN Raise(outcome, "", code)
    ELSE result

\* Ghost: what this step adds to the record of a handler invocation.
InvAfter(f, net, launched, outcome) ==
    IF f.ctx # "handler" THEN inv
    ELSE [inv EXCEPT !.net = @ \/ net, !.launched = @ \/ launched,
                     !.readyOk = @ \/ (outcome = "ok")]

CountFail(f) == IF f.nfail < MaxPollCount THEN f.nfail + 1 ELSE f.nfail

\* Line 137: if _is_kokoro_up(): return
FirstProbe(t) ==
    /\ th[t].pc = "L137"
    /\ \E resp \in HealthResponses(health) :
         LET up == IsKokoroUp(resp)
             f == [th[t] EXCEPT !.firstUp = up, !.sawUp = up,
                                !.nfail = IF up THEN @ ELSE 1]
             ret == AfterFirstProbe(up) = "return"
         IN /\ th' = [th EXCEPT ![t] =
                        IF ret THEN Finish(f, "ok", None)
                        ELSE [f EXCEPT !.pc = AfterFirstProbe(up),
                                       !.startEntered = TRUE]]
            /\ result' = IF ret THEN ResultAfter(f, "ok", None) ELSE result
            /\ inv' = InvAfter(f, TRUE, FALSE, IF ret THEN "ok" ELSE "")
    /\ UNCHANGED <<health, supervisor, job, payload, sent>>

\* Line 92: if _kokoro_proc is not None and _kokoro_proc.poll() is None: return
StartCheck(t) ==
    /\ th[t].pc = "L92"
    /\ th' = [th EXCEPT ![t].pc =
                IF NeedStart(children, kokoro_proc) THEN "L95" ELSE "L143"]
    /\ UNCHANGED <<health, supervisor, worker>>

\* Lines 95-100: diagnostics, then the three stores that force the GPU
\* environment.  Other threads run between these stores and the launch.
ForceEnviron(t) ==
    /\ th[t].pc = "L95"
    /\ environ' = TRUE
    /\ th' = [th EXCEPT ![t].pc = "L105"]
    /\ UNCHANGED <<health, children, kokoro_proc, logThreads, worker>>

\* Lines 105-117: the entrypoint attempt.  A missing script, a failed
\* chmod or a failed Popen is caught at line 119 and leads to the fallback.
TryEntrypoint(t) ==
    /\ th[t].pc = "L105"
    /\ \E entryExists, entryOk \in BOOLEAN :
         IF entryExists /\ entryOk
         THEN /\ Len(children) < MaxLaunches
              /\ children' = Append(children, None)
              /\ th' = [th EXCEPT ![t].pc = "L109",
                                  ![t].newp = Some(Len(children) + 1)]
              /\ inv' = InvAfter(th[t], FALSE, TRUE, "")
         ELSE /\ children' = children
              /\ th' = [th EXCEPT ![t].pc = "L122"]
              /\ inv' = inv
    /\ UNCHANGED <<health, kokoro_proc, logThreads, environ, job, payload,
                   sent, result>>

\* Lines 119-128: the uvicorn fallback.  Its Popen is not guarded: a failure
\* raises out of _start_kokoro_server and _ensure_kokoro_ready.
Fallback(t) ==
    /\ th[t].pc = "L122"
    /\ \E fallbackOk \in BOOLEAN :
         IF fallbackOk
         THEN /\ Len(children) < MaxLaunches
              /\ children' = Append(children, None)
              /\ th' = [th EXCEPT ![t].pc = "L109",
                                  ![t].newp = Some(Len(children) + 1)]
              /\ result' = result
              /\ inv' = InvAfter(th[t], FALSE, TRUE, "")
         ELSE /\ children' = children
              /\ th' = [th EXCEPT ![t] = Finish(@, "OSError", None)]
              /\ result' = ResultAfter(th[t], "OSError", None)
              /\ inv' = inv
    /\ UNCHANGED <<health, kokoro_proc, logThreads, environ, job, payload,
                   sent>>

\* Lines 109 and 122: the store of Popen's result into the global.
AssignProc(t) ==
    /\ th[t].pc = "L109"
    /\ kokoro_proc' = th[t].newp
    /\ th' = [th EXCEPT ![t].pc = "L131"]
    /\ UNCHANGED <<health, children, logThreads, environ, worker>>

\* Lines 131-132: the log thread, started on what the global holds now.
StartLogThread(t) ==
    /\ th[t].pc = "L131"
    /\ logThreads' = Append(logThreads, kokoro_proc[1])
    /\ th' = [th EXCEPT ![t].pc = "L143"]
    /\ UNCHANGED <<health, children, kokoro_proc, environ, worker>>

\* Line 143: start = time.time()
TakeStart(t) ==
    /\ th[t].pc = "L143"
    /\ th' = [th EXCEPT ![t].pc = "L144", ![t].elapsed = 0]
    /\ UNCHANGED <<health, supervisor, worker>>

\* Lines 144 and 159-160: the loop condition; past the bound, TimeoutError.
LoopTest(t) ==
    /\ th[t].pc = "L144"
    /\ LET go == LoopCond(th[t].elapsed, th[t].wait)
       IN /\ th' = [th EXCEPT ![t] =
                      IF go THEN [@ EXCEPT !.pc = "L145"]
                      ELSE Finish(@, "TimeoutError", None)]
          /\ result' = IF go THEN result
                       ELSE ResultAfter(th[t], "TimeoutError", None)
    /\ UNCHANGED <<health, supervisor, job, payload, sent, inv>>

\* Lines 145-150: a process that has exited ends the wait with RuntimeError.
ExitCheck(t) ==
    /\ th[t].pc = "L145"
    /\ LET ret == IF kokoro_proc # None THEN children[kokoro_proc[1]] ELSE None
       IN /\ th' = [th EXCEPT ![t] =
                      IF ret # None THEN Finish(@, "RuntimeError", ret)
                      ELSE [@ EXCEPT !.pc = "L152"]]
          /\ result' = IF ret # None
                       THEN ResultAfter(th[t], "RuntimeError", ret)
                       ELSE result
    /\ UNCHANGED <<health, supervisor, job, payload, sent, inv>>

\* Lines 152-154: a probe of up to ProbeTimeout seconds.
LoopProbe(t) ==
    /\ th[t].pc = "L152"
    /\ \E resp \in HealthResponses(health), d \in 0..ProbeTimeout :
         LET up == IsKokoroUp(resp)
             f == [th[t] EXCEPT !.elapsed = @ + d, !.sawUp = up,
                                !.nfail = IF up THEN @ ELSE CountFail(th[t])]
         IN /\ th' = [th EXCEPT ![t] =
                        IF up THEN Finish(f, "ok", None)
                        ELSE [f EXCEPT !.pc = "L157"]]
            /\ result' = IF up THEN ResultAfter(f, "ok", None) ELSE result
            /\ inv' = InvAfter(f, TRUE, FALSE, IF up THEN "ok" ELSE "")
    /\ UNCHANGED <<health, supervisor, job, payload, sent>>

\* Line 157: time.sleep(2.0)
Sleep(t) ==
    /\ th[t].pc = "L157"
    /\ th' = [th EXCEPT ![t].pc = "L144", ![t].elapsed = @ + Backoff]
    /\ UNCHANGED <<health, supervisor, worker>>

\* One step of a running _ensure_kokoro_ready.
ReadyStep(t) ==
    \/ FirstProbe(t)
    \/ StartCheck(t)
    \/ ForceEnviron(t)
    \/ TryEntrypoint(t)
    \/ Fallback(t)
    \/ AssignProc(t)
    \/ StartLogThread(t)
    \/ TakeStart(t)
    \/ LoopTest(t)
    \/ ExitCheck(t)
    \/ LoopProbe(t)
    \/ Sleep(t)

\* A direct call _ensure_kokoro_ready(w).
Call(t, w) ==
    /\ th[t].pc = "idle"
    /\ th[t].ctx = "direct"
    /\ th' = [th EXCEPT ![t] = NewCall("direct", w, kokoro_proc,
                                       Len(children), Len(logThreads))]
    /\ UNCHANGED <<health, supervisor, worker>>

\* ---------------------------------------------------------------- handler

\* The host runtime hands job j to handler.
HandlerBegin(t, j) ==
    /\ th[t].pc = "idle"
    /\ th[t].ctx \in {"import", "handler"}
    /\ th' = [th EXCEPT ![t] = [IdleFrame("handler") EXCEPT !.pc = "L189"]]
    /\ job' = j
    /\ payload' = None
    /\ sent' = None
    /\ result' = NoResult
    /\ inv' = NoInv
    /\ UNCHANGED <<health, supervisor>>

\* Lines 189-203: the checks, then the call of _ensure_kokoro_ready().
HandlerValidate(t) ==
    /\ th[t].pc = "L189"
    /\ LET v == Validate(job)
       IN IF v.msg # "ok"
          THEN /\ th' = [th EXCEPT ![t].pc = "idle"]
               /\ result' = Raise(v.exc, v.msg, None)
          ELSE /\ th' = [th EXCEPT ![t] =
                           NewCall("handler", DefaultWait, kokoro_proc,
                                   Len(children), Len(logThreads))]
               /\ result' = result
    /\ UNCHANGED <<health, supervisor, job, payload, sent, inv>>

\* Lines 206-209: kokoro_payload.  The frame of _ensure_kokoro_ready, which
\* has returned, is gone.
HandlerPayload(t) ==
    /\ th[t].pc = "L206"
    /\ payload' = Some(Normalize(Get(job[2], "input")[2]))
    /\ th' = [th EXCEPT ![t] = [IdleFrame("handler") EXCEPT
                                  !.pc = "L169", !.outcome = th[t].outcome]]
    /\ UNCHANGED <<health, supervisor, job, sent, result, inv>>

\* Lines 169-173: the copy of the payload with stream forced off, and the
\* request going out.  The call blocks until HandlerPostReturn.
HandlerPost(t) ==
    /\ th[t].pc = "L169"
    /\ sent' = Some(ForceNoStream(payload[1]))
    /\ inv' = [inv EXCEPT !.net = TRUE, !.posts = @ + 1]
    /\ th' = [th EXCEPT ![t].pc = "L173"]
    /\ UNCHANGED <<health, supervisor, job, payload, result>>

\* What requests raises out of _session.post: no connection, or no answer
\* within the 300 seconds of line 173.
PostErrors == {"ConnectionError", "Timeout"}

\* Lines 173-182 and 214-220: the end of the POST and the handler's result.
\* The call is not guarded, so what it raises leaves handler unchanged.  A
\* status other than 200 raises ValueError; a missing content-type header
\* defaults.
HandlerPostReturn(t) ==
    /\ th[t].pc = "L173"
    /\ \/ \E exc \in PostErrors : result' = Raise(exc, "", None)
       \/ \E status \in {HttpOk, 500}, ctype \in {"", "audio/mpeg"} :
            result' =
              IF status # HttpOk
              THEN Raise("ValueError", "Kokoro error", None)
              ELSE Return(IF ctype = "" THEN "application/octet-stream"
                                        ELSE ctype,
                          GetOr(Get(job[2], "input")[2], "response_format",
                                Str("mp3")))
    /\ th' = [th EXCEPT ![t].pc = "idle"]
    /\ UNCHANGED <<health, supervisor, job, payload, sent, inv>>

\* ---------------------------------------------------------- specifications

Environment ==
    \/ HealthChange
    \/ \E i \in DOMAIN children, c \in ExitCodes : ChildExit(i, c)

InitSupervisor ==
    /\ health \in BOOLEAN
    /\ children = << >>
    /\ kokoro_proc = None
    /\ logThreads = << >>
    /\ environ = FALSE

InitWorker ==
    /\ job = Null
    /\ payload = None
    /\ sent = None
    /\ result = NoResult
    /\ inv = NoInv

\* One worker instance: the import runs _ensure_kokoro_ready(), then the
\* runtime calls handler for one job after another.
Init ==
    /\ InitSupervisor
    /\ InitWorker
    /\ th = [t \in {1} |-> NewCall("import", DefaultWait, None, 0, 0)]

Next ==
    \/ Environment
    \/ \E t \in Threads : FirstProbe(t)
    \/ \E t \in Threads : StartCheck(t)
    \/ \E t \in Threads : ForceEnviron(t)
    \/ \E t \in Threads : TryEntrypoint(t)
    \/ \E t \in Threads : Fallback(t)
    \/ \E t \in Threads : AssignProc(t)
    \/ \E t \in Threads : StartLogThread(t)
    \/ \E t \in Threads : TakeStart(t)
    \/ \E t \in Threads : LoopTest(t)
    \/ \E t \in Threads : ExitCheck(t)
    \/ \E t \in Threads : LoopProbe(t)
    \/ \E t \in Threads : Sleep(t)
    \/ \E t \in Threads, j \in SampleJobs : HandlerBegin(t, j)
    \/ \E t \in Threads : HandlerValidate(t)
    \/ \E t \in Threads : HandlerPayload(t)
    \/ \E t \in Threads : HandlerPost(t)
    \/ \E t \in Threads : HandlerPostReturn(t)

Spec == Init /\ [][Next]_vars

\* Direct calls _ensure_kokoro_ready(w), one after another, of one thread.
InitReady ==
    /\ InitSupervisor
    /\ InitWorker
    /\ th = [t \in {1} |-> IdleFrame("direct")]

NextReady ==
    \/ Environment
    \/ \E t \in Threads, w \in 1..MaxWait : Call(t, w)
    \/ \E t \in Threads : FirstProbe(t)
    \/ \E t \in Threads : StartCheck(t)
    \/ \E t \in Threads : ForceEnviron(t)
    \/ \E t \in Threads : TryEntrypoint(t)
    \/ \E t \in Threads : Fallback(t)
    \/ \E t \in Threads : AssignProc(t)
    \/ \E t \in Threads : StartLogThread(t)
    \/ \E t \in Threads : TakeStart(t)
    \/ \E t \in Threads : LoopTest(t)
    \/ \E t \in Threads : ExitCheck(t)
    \/ \E t \in Threads : LoopProbe(t)
    \/ \E t \in Threads : Sleep(t)

SpecReady == InitReady /\ [][NextReady]_vars

\* The thread running _ensure_kokoro_ready keeps running.
SpecReadyFair == SpecReady /\ WF_vars(\E t \in Threads : ReadyStep(t))

\* NThreads threads inside _ensure_kokoro_ready at once, before any child
\* process exists.
InitOverlap ==
    /\ InitSupervisor
    /\ InitWorker
    /\ th \in [1..NThreads -> {NewCall("direct", w, None, 0, 0) : w \in 1..2}]

NextOverlap ==
    \/ Environment
    \/ \E t \in Threads : FirstProbe(t)
    \/ \E t \in Threads : StartCheck(t)
    \/ \E t \in Threads : ForceEnviron(t)
    \/ \E t \in Threads : TryEntrypoint(t)
    \/ \E t \in Threads : Fallback(t)
    \/ \E t \in Threads : AssignProc(t)
    \/ \E t \in Threads : StartLogThread(t)
    \/ \E t \in Threads : TakeStart(t)
    \/ \E t \in Threads : LoopTest(t)
    \/ \E t \in Threads : ExitCheck(t)
    \/ \E t \in Threads : LoopProbe(t)
    \/ \E t \in Threads : Sleep(t)

SpecOverlap == InitOverlap /\ [][NextOverlap]_vars

\* A warm worker: the import has succeeded and the inference server answers
\* 200 on /health throughout, so every readiness check takes the fast path.
InitWarm ==
    /\ health = TRUE
    /\ \/ /\ children = << >>
          /\ kokoro_proc = None
          /\ logThreads = << >>
          /\ environ = FALSE
       \/ /\ children = <<None>>
          /\ kokoro_proc = Some(1)
          /\ logThreads = <<1>>
          /\ environ = TRUE
    /\ InitWorker
    /\ th = [t \in {1} |-> [IdleFrame("import") EXCEPT !.outcome = "ok"]]

NextWarm ==
    \/ \E t \in Threads, j \in AllJobs : HandlerBegin(t, j)
    \/ \E t \in Threads : HandlerValidate(t)
    \/ \E t \in Threads : FirstProbe(t)
    \/ \E t \in Threads : HandlerPayload(t)
    \/ \E t \in Threads : HandlerPost(t)
    \/ \E t \in Threads : HandlerPostReturn(t)

SpecWarm == InitWarm /\ [][NextWarm]_vars

\* ----------------------------------------------------------------- claims

\* A call of _ensure_kokoro_ready, or a handler invocation, has ended.
Terminal(t) == th[t].pc = "idle" /\ th[t].outcome # ""

LiveChildren == {i \in DOMAIN children : children[i] = None}

JobInput(j) == Get(j[2], "input")[2]

\* C1: a handler invocation posts to the speech endpoint only after its own
\* call of _ensure_kokoro_ready has returned; when that call raises the
\* startup error or the timeout error, the invocation fails with that error
\* and posts nothing.
C1_ReadyBeforeSynthesis ==
    \A t \in Threads :
        /\ (sent # None \/ inv.posts > 0) => inv.readyOk
        /\ th[t].pc \in {"L206", "L169", "L173"} => inv.readyOk
        /\ (th[t].ctx = "handler"
            /\ th[t].outcome \in {"RuntimeError", "TimeoutError"})
           => /\ sent = None
              /\ inv.posts = 0
              /\ th[t].pc = "idle"
              /\ result.kind = "raise"
              /\ result.exc = th[t].outcome

\* C1 witness: a synthesis request sent by an invocation that had to launch
\* the server and wait for it.
C1_Witness == sent # None /\ inv.readyOk /\ inv.launched

\* C2 as claimed: over the life of a worker at most one child process is
\* launched.
C2_AtMostOneLaunch == Len(children) <= 1

\* C2 amended: at most one launched child process is alive at any time, and
\* it is the one launched last; a new one is launched only after the
\* previous one has exited.
C2_AtMostOneLive ==
    /\ Cardinality(LiveChildren) <= 1
    /\ \A i \in LiveChildren : i = Len(children)

\* C2 witness: a second process, launched by a handler invocation after the
\* first one exited.
C2_Witness ==
    /\ Len(children) = 2
    /\ children[1] # None
    /\ children[2] = None
    /\ th[1].ctx = "handler"
    /\ kokoro_proc = Some(2)

\* C3: overlapping calls do not double-launch: while no launched process has
\* exited, at most one has been launched and _kokoro_proc refers to it.
C3_NoDoubleLaunch ==
    (\A i \in DOMAIN children : children[i] = None)
        => /\ Len(children) <= 1
           /\ kokoro_proc \in {None, Some(1)}

\* C4: a call during which the awaited process exits with a non-zero code,
\* before any probe answered 200, ends with the startup error carrying that
\* code, never with the timeout error.
C4_ExitGivesStartupError ==
    \A t \in Threads :
        (/\ Terminal(t)
         /\ th[t].exitDuring # None
         /\ th[t].exitDuring # Some(0)
         /\ ~th[t].sawUp)
        => /\ th[t].outcome = "RuntimeError"
           /\ th[t].code = th[t].exitDuring

\* A job input without a non-empty voice, or without both input and text.
LacksRequired(j) ==
    /\ IsDict(j)
    /\ IsDict(Get(j[2], "input"))
    /\ \/ ~Truthy(Get(JobInput(j), "voice"))
       \/ ~Truthy(Get(JobInput(j), "input")) /\ ~Truthy(Get(JobInput(j), "text"))

\* C5: an invocation whose job lacks a required field fails with a
\* validation error, makes no network call and starts no process.
C5_ValidationBeforeNetwork ==
    \A t \in Threads :
        (th[t].ctx = "handler" /\ th[t].pc # "L189" /\ LacksRequired(job))
        => /\ ~inv.net
           /\ ~inv.launched
           /\ th[t].pc = "idle" => result.kind = "raise"
                                    /\ result.exc = "ValueError"

\* C6 as claimed: with a live child, no call times out after N failed polls
\* when N * backoff < wait_timeout_s.
C6_NoTimeoutBackoffOnly ==
    \A t \in Threads :
        (/\ Terminal(t)
         /\ th[t].outcome = "TimeoutError"
         /\ th[t].exitDuring = None
         /\ th[t].nfail < MaxPollCount)
        => th[t].nfail * Backoff >= th[t].wait

\* C6 amended: with a live child, no call times out after N failed polls
\* when N * (backoff + probe timeout) < wait_timeout_s; a probe that answers
\* 200 ends the call with a return, and that probe began before the wait
\* bound.
C6_ReadyAfterFailedPolls ==
    \A t \in Threads :
        /\ (/\ Terminal(t)
            /\ th[t].outcome = "TimeoutError"
            /\ th[t].exitDuring = None
            /\ th[t].nfail < MaxPollCount)
           => th[t].nfail * (Backoff + ProbeTimeout) >= th[t].wait
        /\ th[t].sawUp
           => /\ Terminal(t)
              /\ th[t].outcome = "ok"
              /\ th[t].elapsed < th[t].wait + ProbeTimeout

\* C6 witness: a return after two failed polls under a bound of nine seconds,
\* the child alive throughout.
C6_Witness ==
    /\ Terminal(1)
    /\ th[1].outcome = "ok"
    /\ th[1].nfail = 2
    /\ th[1].wait = MaxWait
    /\ th[1].exitDuring = None
    /\ th[1].elapsed = Backoff + ProbeTimeout

\* C7 as claimed: the timeout error is raised no later than one backoff
\* interval after the wait bound.
C7_TimeoutWithinBackoff ==
    \A t \in Threads :
        (Terminal(t) /\ th[t].outcome = "TimeoutError")
        => th[t].elapsed <= th[t].wait + Backoff

\* The safety half of C7 amended.
C7_Bound ==
    \A t \in Threads :
        /\ (Terminal(t) /\ th[t].outcome = "TimeoutError")
           => /\ th[t].wait <= th[t].elapsed
              /\ th[t].elapsed < th[t].wait + Backoff + ProbeTimeout
        /\ (/\ Terminal(t)
            /\ ~th[t].sawUp
            /\ th[t].exitDuring = None
            /\ th[t].outcome # "OSError")
           => th[t].outcome = "TimeoutError"

\* C7 amended: every call ends; a call in which no probe answered 200 and
\* the launched child stayed alive ends with the timeout error, raised at or
\* after the wait bound and less than one backoff interval plus one probe
\* timeout after it.
C7_TimeoutWithinBound ==
    /\ [](C7_Bound)
    /\ (th[1].pc # "idle") ~> (th[1].pc = "idle")

\* C7 witness: a timeout raised three seconds after a wait bound.
C7_Witness ==
    /\ Terminal(1)
    /\ th[1].outcome = "TimeoutError"
    /\ ~th[1].sawUp
    /\ th[1].exitDuring = None
    /\ th[1].elapsed = th[1].wait + Backoff + ProbeTimeout - 1

\* C8: a call whose first probe answers 200 has returned without entering
\* _start_kokoro_server: no process launched, no log thread started,
\* _kokoro_proc as it was.
C8_FastPath ==
    \A t \in Threads :
        th[t].firstUp
        => /\ Terminal(t)
           /\ th[t].outcome = "ok"
           /\ ~th[t].startEntered
           /\ Len(children) = th[t].entry.n
           /\ Len(logThreads) = th[t].entry.threads
           /\ kokoro_proc = th[t].entry.proc
           /\ th[t].nfail = 0

\* C8 witness: the fast path taken while _kokoro_proc refers to an exited
\* process.
C8_Witness ==
    /\ th[1].firstUp
    /\ Terminal(1)
    /\ kokoro_proc # None
    /\ children[kokoro_proc[1]] # None

\* The checks in the claimed order: the number of the first that fails, 0
\* when none does.
FirstFailedCheck(j) ==
    IF ~IsDict(j) THEN 1
    ELSE IF ~IsDict(Get(j[2], "input")) THEN 2
    ELSE IF ~( Truthy(Get(JobInput(j), "input"))
               \/ Truthy(Get(JobInput(j), "text")) ) THEN 3
    ELSE IF ~Truthy(Get(JobInput(j), "voice")) THEN 4
    ELSE 0

\* The check a raised validation error reports: 0 when r is no validation
\* error.
ReportedCheck(r) ==
    IF r.kind # "raise" \/ r.exc # "ValueError" THEN 0
    ELSE IF r.msg = "job must be a dict" THEN 1
    ELSE IF r.msg = "job['input'] must be an object" THEN 2
    ELSE IF r.msg = "Missing required field: input (or 'text' alias)" THEN 3
    ELSE IF r.msg = "Kokoro error" THEN 0
    ELSE 4

\* C9: the handler raises the validation error of the first check that
\* fails, in the order job, job['input'], text, voice.
C9_ValidationOrder ==
    \A t \in Threads :
        (th[t].ctx = "handler" /\ th[t].pc # "L189"
         /\ FirstFailedCheck(job) # 0)
        => /\ th[t].pc = "idle"
           /\ ReportedCheck(result) = FirstFailedCheck(job)

\* The payload the claim describes for job input d.
ExpectedBody(d) ==
    [k \in (DOMAIN d \ {"text"}) \cup {"input", "model", "stream"} |->
        CASE k = "input" -> IF "input" \in DOMAIN d /\ Truthy(d["input"])
                            THEN d["input"] ELSE d["text"]
          [] k = "model" -> IF "model" \in DOMAIN d THEN d["model"]
                            ELSE Str("kokoro")
          [] k = "stream" -> False
          [] OTHER -> d[k]]

\* C10: the body posted for a valid job input is the input normalized: the
\* text under input, no text key, model defaulted to "kokoro", stream false,
\* every other key as the caller gave it.
C10_PostedPayload ==
    /\ sent # None
       => /\ sent[1] = ExpectedBody(JobInput(job))
          /\ "text" \notin DOMAIN sent[1]
          /\ sent[1]["stream"] = False
    /\ \A t \in Threads :
         (th[t].ctx = "handler" /\ th[t].pc = "idle"
          /\ FirstFailedCheck(job) \in {0, 4})
         => sent # None

\* C10 witness: a body posted for a job that gave the text under the alias,
\* asked for streaming and named no model.
C10_Witness ==
    /\ sent # None
    /\ ~Truthy(Get(JobInput(job), "input"))
    /\ Get(JobInput(job), "stream") = True
    /\ "model" \notin DOMAIN JobInput(job)
    /\ "response_format" \in DOMAIN JobInput(job)

====
